---- MODULE Spec2Model ----
(***************************************************************************)
(* Model of the concurrent crawl coordinator of src/scraper/crawler.py:    *)
(* SharedState (visited set, frontier queue, results, counters, storage    *)
(* guard, stop event), WebCrawler._worker and WebCrawler.crawl.            *)
(*                                                                         *)
(* Scheduling is asyncio's: one event loop, a task runs until it suspends  *)
(* in an await that really waits.  The asyncio.Lock of SharedState is      *)
(* never held across an await, so it is never contended and acquiring it   *)
(* does not suspend; Queue.put on the unbounded queue does not suspend.    *)
(* Each action below is therefore one task resuming from a suspension      *)
(* point (named by pc) and running up to its next suspension point.        *)
(***************************************************************************)
EXTENDS Integers, Sequences, FiniteSets, TLC

\* ---------------------------------------------------------------- bounds
NumWorkers == 2        \* settings.crawler.MAX_CONCURRENT_SCRAPES of the run
NumUrls == 3           \* distinct in-domain URLs of the site
MaxLinks == 2          \* links one page yields after filtering
MaxSize == 2           \* largest serialized size of one page record
MaxBytes == 3          \* storage_stats.max_bytes of the run
MaxCrawls == 2         \* calls of crawl() on one WebCrawler
ScenarioLinks == 5     \* links on the seed page of the one-level site
MaxHrefLen == 3        \* parts of one href of a page

\* ------------------------------------------------------ program constants
MaxAttempts == 3       \* for attempt in range(3)
RaiseAttempt == 2      \* if attempt == 2: raise

Workers == 1..NumWorkers
Urls == 1..NumUrls
Sizes == 1..MaxSize
start_url == 1
NoUrl == 0

LinkLists == UNION {[1..n -> Urls] : n \in 0..MaxLinks}

VARIABLES
  visited_urls,     \* SharedState.visited_urls
  stats,            \* SharedState.stats (CrawlStats)
  total_bytes,      \* SharedState.storage_stats.total_bytes
  max_bytes,        \* SharedState.storage_stats.max_bytes
  queue,            \* SharedState.queue: the items
  unfinished,       \* SharedState.queue: its unfinished-task count
  results,          \* SharedState.results
  stop_event,       \* SharedState._stop_event
  pc,               \* per worker: the await it is suspended in
  url,              \* per worker: local variable url
  attempt,          \* per worker: local variable attempt
  content,          \* per worker: local variable content, as its size
  worker_exc,       \* per worker: the task ended with an exception
  playwright,       \* WebCrawler.playwright: "none", "started", "stopped"
  browser,          \* WebCrawler.browser: "none", "open", "closed"
  contexts,         \* workers whose browser context is open
  pages,            \* workers whose page is open
  cpc,              \* crawl(): position of the coordinator
  exc,              \* crawl(): exception in flight
  outcome,          \* crawl(): "none", "report", "raised"
  report,           \* crawl(): the returned value
  ex,               \* a call of extract_content: the page and what came back
  hist              \* history of the run, read by the properties only

vars == <<visited_urls, stats, total_bytes, max_bytes, queue, unfinished, results,
          stop_event, pc, url, attempt, content,
          worker_exc, playwright, browser, contexts, pages, cpc, exc, outcome,
          report, ex, hist>>

shared == <<visited_urls, stats, total_bytes, queue, unfinished, results, stop_event>>
coord == <<playwright, browser, cpc, exc, outcome, report>>
sessions == <<contexts, pages>>

\* ------------------------------------------------------------ SharedState

\* CrawlStats counting the seed as queued from the start
CrawlStats_seeded == [total_processed |-> 0, total_failed |-> 0, total_queued |-> 1]

\* CrawlStats()
CrawlStats == [total_processed |-> 0, total_failed |-> 0, total_queued |-> 0]

\* StorageStats.usage_percentage = (total_bytes / max_bytes) * 100, kept as
\* the exact fraction <<numerator, denominator>>
usage_percentage(tb) == <<tb * 100, max_bytes>>

\* fraction <<n, d>> (d > 0) is at most the integer k
FracLeq(f, k) == f[1] <= k * f[2]

\* check_storage_limits that admits the record without adding its size
check_storage_limits_nocount(tb, size) ==
  IF tb + size > max_bytes THEN <<FALSE, tb>> ELSE <<TRUE, tb>>

\* check_storage_limits that counts the size before it tests the limit
check_storage_limits_eager(tb, size) ==
  IF tb + size > max_bytes THEN <<FALSE, tb + size>> ELSE <<TRUE, tb + size>>

\* SharedState.check_storage_limits: <<returned value, new total_bytes>>
check_storage_limits(tb, size) ==
  IF tb + size > max_bytes THEN <<FALSE, tb>> ELSE <<TRUE, tb + size>>

\* add_visited_url without the membership test
add_visited_url_nocheck(vis, u) == <<TRUE, vis \cup {u}>>

\* add_visited_url that forgets to record the URL
add_visited_url_noadd(vis, u) ==
  IF u \in vis THEN <<FALSE, vis>> ELSE <<TRUE, vis>>

\* SharedState.add_visited_url: <<returned value, new visited_urls>>
add_visited_url(vis, u) ==
  IF u \in vis THEN <<FALSE, vis>> ELSE <<TRUE, vis \cup {u}>>

\* add_result that appends the record before it checks the storage limit
add_result_appendsfirst(tb, res, stop, rec) ==
  LET chk == check_storage_limits(tb, rec.size) IN
  IF ~chk[1] THEN <<FALSE, chk[2], Append(res, rec), TRUE>>
  ELSE <<TRUE, chk[2], Append(res, rec), stop>>

\* add_result that leaves the stop event to its caller
add_result_nostop(tb, res, stop, rec) ==
  LET chk == check_storage_limits(tb, rec.size) IN
  IF ~chk[1] THEN <<FALSE, chk[2], res, stop>>
  ELSE <<TRUE, chk[2], Append(res, rec), stop>>

\* SharedState.add_result: <<returned value, total_bytes, results, stop>>
add_result(tb, res, stop, rec) ==
  LET chk == check_storage_limits(tb, rec.size) IN
  IF ~chk[1] THEN <<FALSE, chk[2], res, TRUE>>
  ELSE <<TRUE, chk[2], Append(res, rec), stop>>

\* update_stats that assigns total_queued instead of adding to it
update_stats_assign(st, processed, failed, queued) ==
  [total_processed |-> st.total_processed + processed,
   total_failed |-> st.total_failed + failed,
   total_queued |-> queued]

\* update_stats that drops the queued increment
update_stats_noqueued(st, processed, failed, queued) ==
  [total_processed |-> st.total_processed + processed,
   total_failed |-> st.total_failed + failed,
   total_queued |-> st.total_queued]

\* SharedState.update_stats
update_stats(st, processed, failed, queued) ==
  [total_processed |-> st.total_processed + processed,
   total_failed |-> st.total_failed + failed,
   total_queued |-> st.total_queued + queued]

\* the four asyncio.Lock objects of SharedState
Locks == {"_url_lock", "_results_lock", "_stats_lock", "_storage_lock"}

\* async with lock: with no await in its body: acquire, then release
AsyncWith(lock) == <<<<"acquire", lock>>, <<"release", lock>> >>

\* the lock events of a call of check_storage_limits
check_storage_limits_locks == AsyncWith("_storage_lock")

\* the lock events of a call of add_visited_url
add_visited_url_locks == AsyncWith("_url_lock")

\* the lock events of a call of add_result: check_storage_limits is awaited
\* before _results_lock is taken, and the rejecting return does not take it
add_result_locks(stored) ==
  check_storage_limits_locks
    \o (IF stored THEN AsyncWith("_results_lock") ELSE <<>>)

\* update_stats taking _stats_lock by acquire() and keeping it
update_stats_locks_kept == <<<<"acquire", "_stats_lock">> >>

\* the lock events of a call of update_stats
update_stats_locks == AsyncWith("_stats_lock")

\* the locks a task holds after the lock events evs, holding held before
RECURSIVE RunLocks(_, _)
RunLocks(held, evs) ==
  IF evs = <<>> THEN held
  ELSE RunLocks(IF Head(evs)[1] = "acquire" THEN held \cup {Head(evs)[2]}
                ELSE held \ {Head(evs)[2]},
                Tail(evs))

\* -------------------------------------------------------- extract_content
\* A rendered page as extract_content meets it: whether page.title(),
\* page.content() and the page.evaluate calls return or raise, and what they
\* return.  img_fails is the number of leading image evaluations that raise.
Pages ==
  [url : Urls, title_ok : BOOLEAN, content_ok : BOOLEAN, meta_ok : BOOLEAN,
   img_fails : 0..MaxAttempts, images : 0..1, videos_ok : BOOLEAN,
   videos : 0..1]

\* the empty dict
EmptyDict == [k \in {} |-> 0]

\* _determine_content_type: its body is "pass"
determine_content_type(page) == "None"

\* _extract_metadata without its try/except
extract_metadata_noexcept(page) ==
  IF page.meta_ok
  THEN <<"return", [last_updated |-> "lastModified", word_count |-> 1]>>
  ELSE <<"raise", EmptyDict>>

\* _extract_metadata: <<"return", the dict>>; {} when an evaluation raised
extract_metadata(page) ==
  IF page.meta_ok
  THEN <<"return", [last_updated |-> "lastModified", word_count |-> 1]>>
  ELSE <<"return", EmptyDict>>

\* the items page.evaluate returns for n elements of a kind
MediaItems(kind, n) == [i \in 1..n |-> [type |-> kind, url |-> i]]

\* _extract_media: <<"return", the list>>.  The images are extended when one
\* of the range(3) attempts returns; the video evaluation raising is caught
\* by the outer except, which returns []
extract_media(page) ==
  LET images == IF page.img_fails < MaxAttempts
                THEN MediaItems("image", page.images) ELSE <<>> IN
  IF page.videos_ok
  THEN <<"return", images \o MediaItems("video", page.videos)>>
  ELSE <<"return", <<>> >>

\* extract_content: <<"return", the dict>>, or <<"raise">> when one of the
\* awaits of the dict display raises
extract_content(page) ==
  LET metadata == extract_metadata(page)
      media == extract_media(page) IN
  IF ~page.title_ok \/ ~page.content_ok
       \/ metadata[1] = "raise" \/ media[1] = "raise"
  THEN <<"raise">>
  ELSE <<"return",
         [url |-> page.url, title |-> "title", content |-> "html",
          type |-> determine_content_type(page),
          metadata |-> metadata[2], media |-> media[2]]>>

\* ---------------------------------------------------------- _extract_links
\* An href is the sequence of its parts, each part one of the substrings the
\* filters look for or an indifferent piece of text.
TARGET_DOMAIN == "https://roc-eclerc.com/"

URL_BLACKLIST_PATTERNS == {"nos-agences", "avis-de-deces"}

HrefParts ==
  {TARGET_DOMAIN, "https://elsewhere.example/", "page", "#", ".pdf", ".doc",
   ".docx"} \cup URL_BLACKLIST_PATTERNS

Hrefs(n) == UNION {[1..k -> HrefParts] : k \in 1..n}

\* the a[href] lists of a page: any one href, or any two short ones
HrefLists ==
  {<<>>} \cup {<<h>> : h \in Hrefs(MaxHrefLen)}
         \cup {<<h1, h2>> : h1 \in Hrefs(MaxHrefLen - 1), h2 \in Hrefs(MaxHrefLen - 2)}

\* href.startsWith(prefix), for a prefix of one part
startsWith(href, prefix) == href # <<>> /\ Head(href) = prefix

\* href.includes(part) / pattern in link
includes(href, part) == \E i \in 1..Len(href) : href[i] = part

\* href.endsWith(suffix)
endsWith(href, suffix) == href # <<>> /\ href[Len(href)] = suffix

\* the filter chain of the page.evaluate script
JsFilter(href) ==
  /\ startsWith(href, TARGET_DOMAIN)
  /\ ~includes(href, "#")
  /\ ~endsWith(href, ".pdf")
  /\ ~endsWith(href, ".doc")
  /\ ~endsWith(href, ".docx")

\* not any(pattern in link for pattern in URL_BLACKLIST_PATTERNS)
NotBlacklisted(link) ==
  ~\E pattern \in URL_BLACKLIST_PATTERNS : includes(link, pattern)

\* _extract_links without the blacklist comprehension
extract_links_noblacklist(hrefs, eval_ok) ==
  IF ~eval_ok THEN <<>> ELSE SelectSeq(hrefs, JsFilter)

\* _extract_links: the links of the script, less the blacklisted ones; []
\* when page.evaluate raises
extract_links(hrefs, eval_ok) ==
  IF ~eval_ok THEN <<>>
  ELSE SelectSeq(SelectSeq(hrefs, JsFilter), NotBlacklisted)

\* ----------------------------------------------------------------- worker

\* the loop written as "while True": the stop signal is not read
LoopHead_ignores(stop) == "get"

\* the loop condition with its negation dropped
LoopHead_inverted(stop) == IF stop THEN "get" ELSE "close_page"

\* while not self.state.should_stop: the next suspension point of a worker
\* that arrives at the loop head (the finally block when the loop ends)
LoopHead(stop) == IF stop THEN "close_page" ELSE "get"

\* occurrences of u in the queue
Count(q, u) == Cardinality({i \in 1..Len(q) : q[i] = u})

\* the put loop without the visited test
PutNew_nofilter(q, vis, links) == q \o links

\* for new_url in new_urls: if new_url not in visited_urls: put(new_url)
RECURSIVE PutNew(_, _, _)
PutNew(q, vis, links) ==
  IF links = <<>> THEN q
  ELSE PutNew(IF Head(links) \notin vis THEN Append(q, Head(links)) ELSE q,
              vis, Tail(links))

\* the retry loop testing attempt == 3, which range(3) never yields
RetryStep_late(ok, a) ==
  IF ok THEN "break" ELSE IF a = RaiseAttempt + 1 THEN "raise" ELSE "retry"

\* one pass of "for attempt in range(3)" after page.goto returned (ok) or
\* raised: break, re-raise (attempt == 2), or sleep and go round again
RetryStep(ok, a) ==
  IF ok THEN "break" ELSE IF a = RaiseAttempt THEN "raise" ELSE "retry"

\* asyncio cancellation of a worker task (the deadline of crawl cancels the
\* gather): CancelledError is raised at the await the task is suspended in;
\* it is not an Exception, so only the finally block of _worker runs
CancelPc(p) ==
  CASE p \in {"idle", "new_context", "done"} -> "done"
    [] p = "new_page" -> "close_context"
    [] p \in {"close_page", "close_context"} -> "done"
    [] OTHER -> "close_page"

\* ------------------------------------------------------------------- Init
\* WebCrawler() for a run whose quota is mb and whose site has the pages
\* urls: SharedState.__init__ and WebCrawler.__init__
InitWith(mb, urls) ==
  /\ visited_urls = {}
  /\ stats = CrawlStats
  /\ total_bytes = 0
  /\ max_bytes = mb
  /\ queue = <<>>
  /\ unfinished = 0
  /\ results = <<>>
  /\ stop_event = FALSE
  /\ pc = [w \in Workers |-> "idle"]
  /\ url = [w \in Workers |-> NoUrl]
  /\ attempt = [w \in Workers |-> 0]
  /\ content = [w \in Workers |-> 0]
  /\ worker_exc = [w \in Workers |-> FALSE]
  /\ playwright = "none"
  /\ browser = "none"
  /\ contexts = {}
  /\ pages = {}
  /\ cpc = "init"
  /\ exc = "none"
  /\ outcome = "none"
  /\ report = [results |-> <<>>, stats |-> CrawlStats,
               storage |-> [total_bytes |-> 0, usage_percentage |-> <<0, 1>>,
                            max_bytes |-> mb]]
  /\ hist = [admits |-> [u \in urls |-> 0],
             fails |-> [w \in Workers |-> 0],
             fetched |-> [w \in Workers |-> FALSE],
             abandoned |-> {}, rejected |-> {}, reject_stop |-> TRUE,
             trip_len |-> 0, deadline |-> FALSE,
             putters |-> [u \in urls |-> {}], shared_dup |-> FALSE,
             crawls |-> 1, partial |-> [w \in Workers |-> FALSE],
             held |-> [w \in Workers |-> {}], enqueued |-> {}]

\* no call of extract_content under observation
NoCall == [pc |-> "none"]

Init == InitWith(MaxBytes, Urls) /\ ex = NoCall

\* --------------------------------------------------------- worker actions
\* The locals url, attempt and content are kept only while the iteration
\* (the retry loop) that reads them runs, and are reset when it ends;
\* hist.fails and hist.fetched count the page.goto calls of the iteration in
\* progress; hist.putters[u] holds the workers that put the entries of u now
\* on the queue, and hist.shared_dup records that an entry dropped as a
\* duplicate was of a URL put by two workers.  The finally block of _worker is modelled by its control flow
\* and by the sessions it releases (a failing page.close() skips
\* context.close()).

EndIteration(w, h) == [h EXCEPT !.fails[w] = 0, !.fetched[w] = FALSE]

\* the ghost record after worker w ran the lock events evs in its step
Locked(w, h, evs) == [h EXCEPT !.held[w] = RunLocks(@, evs)]

\* _worker raising the stop signal when it cannot open its context
NewContext_stops(w) ==
  /\ pc[w] = "new_context"
  /\ \/ /\ pc' = [pc EXCEPT ![w] = "new_page"]
        /\ contexts' = contexts \cup {w}
        /\ UNCHANGED <<worker_exc, stop_event>>
     \/ /\ worker_exc' = [worker_exc EXCEPT ![w] = TRUE]
        /\ pc' = [pc EXCEPT ![w] = "done"]
        /\ stop_event' = TRUE
        /\ UNCHANGED contexts
  /\ UNCHANGED <<max_bytes, ex, visited_urls, stats, total_bytes, queue,
                 unfinished, results, coord, pages, url, attempt, content, hist>>

\* context = await self.browser.new_context()   (outside the try)
NewContext(w) ==
  /\ pc[w] = "new_context"
  /\ \/ /\ pc' = [pc EXCEPT ![w] = "new_page"]
        /\ contexts' = contexts \cup {w}
        /\ UNCHANGED worker_exc
     \/ /\ worker_exc' = [worker_exc EXCEPT ![w] = TRUE]
        /\ pc' = [pc EXCEPT ![w] = "done"]
        /\ UNCHANGED contexts
  /\ UNCHANGED <<max_bytes, ex, shared, coord, pages, url, attempt, content, hist>>

\* page = await context.new_page(), then the loop head; a failure is caught
\* by the outer except and the finally block closes the context
NewPage(w) ==
  /\ pc[w] = "new_page"
  /\ \/ /\ pc' = [pc EXCEPT ![w] = LoopHead(stop_event)]
        /\ pages' = pages \cup {w}
     \/ /\ pc' = [pc EXCEPT ![w] = "close_context"]
        /\ UNCHANGED pages
  /\ UNCHANGED <<max_bytes, ex, shared, coord, contexts, url, attempt, content, worker_exc, hist>>

\* _worker counting the dropped duplicate as a processed page
Get_countsdup(w) ==
  /\ pc[w] = "get"
  /\ queue # <<>>
  /\ LET u == Head(queue)
         adm == add_visited_url(visited_urls, u) IN
     /\ queue' = Tail(queue)
     /\ visited_urls' = adm[2]
     /\ hist' = [hist EXCEPT
          !.admits[u] = IF adm[1] THEN @ + 1 ELSE @,
          !.shared_dup = @ \/ (~adm[1] /\ Cardinality(hist.putters[u]) >= 2),
          !.putters[u] = IF Count(queue', u) = 0 THEN {} ELSE @,
          !.held[w] = RunLocks(@, add_visited_url_locks)]
     /\ IF adm[1]
        THEN /\ url' = [url EXCEPT ![w] = u]
             /\ pc' = [pc EXCEPT ![w] = "goto"]
             /\ UNCHANGED <<unfinished, stats>>
        ELSE /\ unfinished' = unfinished - 1
             /\ stats' = update_stats(stats, 1, 0, 0)
             /\ pc' = [pc EXCEPT ![w] = LoopHead(stop_event)]
             /\ UNCHANGED url
  /\ UNCHANGED <<max_bytes, ex, sessions, total_bytes, results, stop_event, coord, attempt, content, worker_exc>>

\* url = await wait_for(queue.get(), 10) returns an item; add_visited_url;
\* a duplicate is acknowledged and the loop continues, a new URL starts the
\* first page.goto
Get(w) ==
  /\ pc[w] = "get"
  /\ queue # <<>>
  /\ LET u == Head(queue)
         adm == add_visited_url(visited_urls, u) IN
     /\ queue' = Tail(queue)
     /\ visited_urls' = adm[2]
     /\ hist' = [hist EXCEPT
          !.admits[u] = IF adm[1] THEN @ + 1 ELSE @,
          !.shared_dup = @ \/ (~adm[1] /\ Cardinality(hist.putters[u]) >= 2),
          !.putters[u] = IF Count(queue', u) = 0 THEN {} ELSE @,
          !.held[w] = RunLocks(@, add_visited_url_locks)]
     /\ IF adm[1]
        THEN /\ url' = [url EXCEPT ![w] = u]
             /\ pc' = [pc EXCEPT ![w] = "goto"]
             /\ UNCHANGED unfinished
        ELSE /\ unfinished' = unfinished - 1
             /\ pc' = [pc EXCEPT ![w] = LoopHead(stop_event)]
             /\ UNCHANGED url
  /\ UNCHANGED <<max_bytes, ex, sessions, stats, total_bytes, results, stop_event, coord, attempt, content, worker_exc>>

\* the 10 s timeout of wait_for expires while the queue is empty
GetTimeout(w) ==
  /\ pc[w] = "get"
  /\ queue = <<>>
  /\ pc' = [pc EXCEPT ![w] = "timedout"]
  /\ UNCHANGED <<max_bytes, ex, sessions, shared, coord, url, attempt, content,
                 worker_exc, hist>>

\* the timeout handler without its queue.empty() test: always break
TimeoutCheck_breaks(w) ==
  /\ pc[w] = "timedout"
  /\ pc' = [pc EXCEPT ![w] = "close_page"]
  /\ UNCHANGED <<max_bytes, ex, sessions, shared, coord, url, attempt, content,
                 worker_exc, hist>>

\* except asyncio.TimeoutError: if queue.empty(): break / continue
TimeoutCheck(w) ==
  /\ pc[w] = "timedout"
  /\ pc' = [pc EXCEPT ![w] = IF queue = <<>> THEN "close_page"
                             ELSE LoopHead(stop_event)]
  /\ UNCHANGED <<max_bytes, ex, sessions, shared, coord, url, attempt, content,
                 worker_exc, hist>>

\* the except handler counting the failed page as processed as well
ExceptHandler_processed(w) ==
  /\ stats' = update_stats(stats, 1, 1, 0)
  /\ unfinished' = unfinished - 1
  /\ pc' = [pc EXCEPT ![w] = LoopHead(stop_event)]
  /\ url' = [url EXCEPT ![w] = NoUrl]
  /\ attempt' = [attempt EXCEPT ![w] = 0]

\* the except handler placed around the while loop: the exception ends it
ExceptHandler_breaks(w) ==
  /\ stats' = update_stats(stats, 0, 1, 0)
  /\ unfinished' = unfinished - 1
  /\ pc' = [pc EXCEPT ![w] = "close_page"]
  /\ url' = [url EXCEPT ![w] = NoUrl]
  /\ attempt' = [attempt EXCEPT ![w] = 0]

\* except Exception of the loop body: update_stats(failed=1), task_done,
\* back to the loop head
ExceptHandler(w) ==
  /\ stats' = update_stats(stats, 0, 1, 0)
  /\ unfinished' = unfinished - 1
  /\ pc' = [pc EXCEPT ![w] = LoopHead(stop_event)]
  /\ url' = [url EXCEPT ![w] = NoUrl]
  /\ attempt' = [attempt EXCEPT ![w] = 0]

\* await page.goto(url) returns or raises; RetryStep decides
Goto(w) ==
  /\ pc[w] = "goto"
  /\ \E ok \in BOOLEAN :
       LET h == IF ok THEN [hist EXCEPT !.fetched[w] = TRUE]
                ELSE [hist EXCEPT !.fails[w] = @ + 1,
                                  !.abandoned = IF hist.fails[w] + 1 = 3
                                                THEN @ \cup {url[w]} ELSE @]
           step == RetryStep(ok, attempt[w]) IN
       CASE step = "break" ->
              /\ pc' = [pc EXCEPT ![w] = "extract"]
              /\ attempt' = [attempt EXCEPT ![w] = 0]
              /\ hist' = h
              /\ UNCHANGED <<stats, unfinished, url, content>>
         [] step = "raise" ->
              /\ ExceptHandler(w)
              /\ hist' = Locked(w, EndIteration(w, h), update_stats_locks)
              /\ UNCHANGED content
         [] OTHER ->
              /\ pc' = [pc EXCEPT ![w] = "backoff"]
              /\ hist' = h
              /\ UNCHANGED <<stats, unfinished, url, attempt, content>>
  /\ UNCHANGED <<max_bytes, ex, sessions, visited_urls, total_bytes, queue, results, stop_event, coord, worker_exc>>

\* await asyncio.sleep(2 ** attempt) returns: the next pass of the for loop,
\* which ends after range(3)
Backoff(w) ==
  /\ pc[w] = "backoff"
  /\ IF attempt[w] + 1 < MaxAttempts
     THEN /\ attempt' = [attempt EXCEPT ![w] = @ + 1]
          /\ pc' = [pc EXCEPT ![w] = "goto"]
     ELSE /\ attempt' = [attempt EXCEPT ![w] = 0]
          /\ pc' = [pc EXCEPT ![w] = "extract"]
  /\ UNCHANGED <<max_bytes, ex, sessions, shared, coord, url, content,
                 worker_exc, hist>>

\* the pages the renderer may show at URL u: every combination of the
\* extraction calls returning or raising, on a page with one image and one
\* video
RenderedPages(u) ==
  {[p EXCEPT !.url = u] :
     p \in {q \in Pages : /\ q.url = start_url
                          /\ q.images = 1 /\ q.videos = 1
                          /\ q.img_fails \in {0, MaxAttempts}}}

\* the metadata or the media extraction of the page fails inside
\* extract_content
PartialPage(page) ==
  ~page.meta_ok \/ ~page.videos_ok \/ page.img_fails = MaxAttempts

\* content = await self.extract_content(page) returns the record (kept as
\* its serialized size, sys.getsizeof(json.dumps(content)), and in
\* hist.partial whether metadata or media extraction had failed) or raises
Extract(w) ==
  /\ pc[w] = "extract"
  /\ \E page \in RenderedPages(url[w]) :
       IF extract_content(page)[1] = "raise"
       THEN /\ ExceptHandler(w)
            /\ hist' = Locked(w, EndIteration(w, hist), update_stats_locks)
            /\ UNCHANGED content
       ELSE \E sz \in Sizes :
            /\ content' = [content EXCEPT ![w] = sz]
            /\ pc' = [pc EXCEPT ![w] = "add_result"]
            /\ hist' = [EndIteration(w, hist) EXCEPT
                          !.partial[w] = PartialPage(page)]
            /\ UNCHANGED <<stats, unfinished, url, attempt>>
  /\ UNCHANGED <<max_bytes, ex, sessions, visited_urls, total_bytes, queue, results, stop_event, coord, worker_exc>>

\* if not await self.state.add_result(content): stop_crawling(); break
\* update_stats(processed=1); the call of _extract_links suspends
AddResult(w) ==
  /\ pc[w] = "add_result"
  /\ LET rec == [url |-> url[w], size |-> content[w]]
         r == add_result(total_bytes, results, stop_event, rec) IN
     /\ total_bytes' = r[2]
     /\ results' = r[3]
     /\ IF r[1]
        THEN /\ stop_event' = r[4]
             /\ stats' = update_stats(stats, 1, 0, 0)
             /\ pc' = [pc EXCEPT ![w] = "links"]
             /\ hist' = Locked(w, [hist EXCEPT !.partial[w] = FALSE],
                               add_result_locks(TRUE) \o update_stats_locks)
             /\ UNCHANGED url
        ELSE /\ stop_event' = TRUE
             /\ pc' = [pc EXCEPT ![w] = "close_page"]
             /\ url' = [url EXCEPT ![w] = NoUrl]
             /\ hist' = Locked(w, [hist EXCEPT
                  !.partial[w] = FALSE,
                  !.rejected = @ \cup {url[w]},
                  !.reject_stop = @ /\ r[4],
                  !.trip_len = IF hist.rejected = {} THEN Len(results) ELSE @],
                  add_result_locks(FALSE))
             /\ UNCHANGED stats
  /\ content' = [content EXCEPT ![w] = 0]
  /\ UNCHANGED <<max_bytes, ex, sessions, visited_urls, queue, unfinished, coord, attempt, worker_exc>>

\* new_urls = await self._extract_links(page) has returned new_urls: the
\* put loop; update_stats(queued=queued); the rate-limit sleep suspends
PutLinks(w, new_urls) ==
  /\ pc[w] = "links"
  /\ queue' = PutNew(queue, visited_urls, new_urls)
  /\ unfinished' = unfinished + (Len(queue') - Len(queue))
  /\ stats' = update_stats(stats, 0, 0, Len(queue') - Len(queue))
  /\ hist' = Locked(w, [hist EXCEPT
                !.putters =
                  [u \in DOMAIN @ |->
                     IF Count(queue', u) > Count(queue, u)
                     THEN @[u] \cup {w} ELSE @[u]],
                !.enqueued =
                  @ \cup {queue'[i] : i \in (Len(queue) + 1)..Len(queue')}],
                update_stats_locks)
  /\ pc' = [pc EXCEPT ![w] = "sleep"]
  /\ url' = [url EXCEPT ![w] = NoUrl]
  /\ UNCHANGED <<max_bytes, ex, sessions, visited_urls, total_bytes, results, stop_event, coord,
                 attempt, content, worker_exc>>

\* the page yields any list of at most MaxLinks filtered links
Links(w) == \E new_urls \in LinkLists : PutLinks(w, new_urls)

\* await asyncio.sleep(SCRAPING_DELAY) returns, back to the loop head
Sleep(w) ==
  /\ pc[w] = "sleep"
  /\ pc' = [pc EXCEPT ![w] = LoopHead(stop_event)]
  /\ UNCHANGED <<max_bytes, ex, sessions, shared, coord, url, attempt, content,
                 worker_exc, hist>>

\* finally: await page.close() returns; or it raises, which skips
\* context.close() and is logged by the except clause of the finally block
ClosePage(w) ==
  /\ pc[w] = "close_page"
  /\ \/ /\ pc' = [pc EXCEPT ![w] = "close_context"]
        /\ pages' = pages \ {w}
     \/ /\ pc' = [pc EXCEPT ![w] = "done"]
        /\ UNCHANGED pages
  /\ UNCHANGED <<max_bytes, ex, shared, coord, contexts, url, attempt, content, worker_exc, hist>>

\* finally: await context.close() returns (a context closes its pages with
\* it), or raises and is logged
CloseContext(w) ==
  /\ pc[w] = "close_context"
  /\ pc' = [pc EXCEPT ![w] = "done"]
  /\ \/ /\ contexts' = contexts \ {w}
        /\ pages' = pages \ {w}
     \/ UNCHANGED <<contexts, pages>>
  /\ UNCHANGED <<max_bytes, ex, shared, coord, url, attempt, content, worker_exc, hist>>

\* ---------------------------------------------------- coordinator actions

\* the gather taken as complete once the worker tasks were created
AllDone_created == \A w \in Workers : pc[w] # "idle"

\* every worker task has ended (returned, raised, or ended its cancellation)
AllDone == \A w \in Workers : pc[w] = "done"

\* asyncio.gather(*workers, return_exceptions=True): the exception raised by
\* the gather once every worker task has ended
GatherRaises(wexc) == "none"

\* crawl() with no except clause
CrawlCatches_none(e) == FALSE

\* crawl() with the except asyncio.TimeoutError clause only
CrawlCatches_onlyTimeout(e) == e = "TimeoutError"

\* the except clauses of crawl(): asyncio.TimeoutError and Exception
CrawlCatches(e) == e \in {"TimeoutError", "Exception"}

\* the dict returned by crawl()
Report ==
  [results |-> results, stats |-> stats,
   storage |-> [total_bytes |-> total_bytes,
                usage_percentage |-> usage_percentage(total_bytes),
                max_bytes |-> max_bytes]]

\* browser_context() starts playwright and launches the browser;
\* queue.put(start_url); create_task for every worker; wait_for(gather)
StartCrawl ==
  /\ cpc = "init"
  /\ playwright' = "started"
  /\ browser' = "open"
  /\ queue' = Append(queue, start_url)
  /\ unfinished' = unfinished + 1
  /\ pc' = [w \in Workers |-> "new_context"]
  /\ cpc' = "gather"
  /\ hist' = [hist EXCEPT !.enqueued = @ \cup {start_url}]
  /\ UNCHANGED <<max_bytes, ex, sessions, visited_urls, stats, total_bytes, results, stop_event, url,
                 attempt, content, worker_exc, exc, outcome,
                 report>>

\* async_playwright().start() or chromium.launch() raises: the finally block
\* of browser_context stops what was started and the exception leaves the
\* async with block
StartFails ==
  /\ cpc = "init"
  /\ \/ playwright' = "none"
     \/ playwright' = "stopped"
  /\ UNCHANGED browser
  /\ exc' = "Exception"
  /\ cpc' = "except"
  /\ UNCHANGED <<max_bytes, ex, sessions, shared, pc, url, attempt, content,
                 worker_exc, outcome, report, hist>>

\* Leaving the async with block with exception e in flight (or "none"):
\* browser.close() and playwright.stop(), or browser.close() raises and
\* playwright.stop() is skipped; the except clauses; finally:
\* stop_crawling() and the call of wait_for(queue.join(), 5).  Every worker
\* task has ended by then, so no other task runs between these awaits.
LeaveContext(e) ==
  /\ \/ /\ browser' = "closed"
        /\ contexts' = {}
        /\ pages' = {}
        /\ playwright' = "stopped"
        /\ exc' = (IF CrawlCatches(e) THEN "none" ELSE e)
     \/ /\ exc' = (IF CrawlCatches("Exception") THEN "none" ELSE "Exception")
        /\ UNCHANGED <<browser, contexts, pages, playwright>>
  /\ stop_event' = TRUE
  /\ cpc' = "join"
  /\ UNCHANGED <<max_bytes, ex, visited_urls, stats, total_bytes, queue, unfinished, results,
                 pc, url, attempt, content, worker_exc, outcome, report, hist>>

\* every worker task has ended: the gather returns
GatherDone ==
  /\ cpc = "gather"
  /\ AllDone
  /\ LeaveContext(GatherRaises(worker_exc))

\* max_duration expires in wait_for: the gather and with it every worker
\* task is cancelled, wait_for waits until they have ended
Deadline ==
  /\ cpc = "gather"
  /\ ~AllDone
  /\ pc' = [w \in Workers |-> CancelPc(pc[w])]
  /\ url' = [w \in Workers |-> NoUrl]
  /\ attempt' = [w \in Workers |-> 0]
  /\ content' = [w \in Workers |-> 0]
  /\ hist' = [hist EXCEPT !.fails = [w \in Workers |-> 0],
                          !.fetched = [w \in Workers |-> FALSE],
                          !.partial = [w \in Workers |-> FALSE],
                          !.deadline = TRUE]
  /\ cpc' = "cancelling"
  /\ UNCHANGED <<max_bytes, ex, sessions, shared, worker_exc, playwright, browser, exc, outcome, report>>

\* the cancelled workers have ended: wait_for raises TimeoutError
CancelDone ==
  /\ cpc = "cancelling"
  /\ AllDone
  /\ LeaveContext("TimeoutError")

\* browser_context() raised before its yield: the except Exception clause,
\* then the finally block of crawl()
StartupHandled ==
  /\ cpc = "except"
  /\ exc' = (IF CrawlCatches(exc) THEN "none" ELSE exc)
  /\ stop_event' = TRUE
  /\ cpc' = "join"
  /\ UNCHANGED <<max_bytes, ex, sessions, visited_urls, stats, total_bytes, queue, unfinished, results,
                 pc, url, attempt, content, worker_exc, playwright, browser,
                 outcome, report, hist>>

\* queue.join() returns (unfinished = 0) or its 5 s wait times out; then
\* crawl() returns the report, or the exception in flight leaves crawl()
JoinReturn ==
  /\ cpc = "join"
  /\ cpc' = "done"
  /\ IF exc = "none"
     THEN /\ outcome' = "report"
          /\ report' = Report
     ELSE /\ outcome' = "raised"
          /\ UNCHANGED report
  /\ UNCHANGED <<max_bytes, ex, sessions, shared, pc, url, attempt, content, worker_exc, playwright,
                 browser, exc, hist>>

\* ------------------------------------------------------------------- Next
Next ==
  \/ StartCrawl
  \/ StartFails
  \/ GatherDone
  \/ Deadline
  \/ CancelDone
  \/ StartupHandled
  \/ JoinReturn
  \/ \E w \in Workers :
       \/ NewContext(w)
       \/ NewPage(w)
       \/ Get(w)
       \/ GetTimeout(w)
       \/ TimeoutCheck(w)
       \/ Goto(w)
       \/ Backoff(w)
       \/ Extract(w)
       \/ AddResult(w)
       \/ Links(w)
       \/ Sleep(w)
       \/ ClosePage(w)
       \/ CloseContext(w)

Spec == Init /\ [][Next]_vars

\* ------------------------------------------------- the event loop is fair
\* a step of the task of worker w
WorkerStep(w) ==
  \/ NewContext(w) \/ NewPage(w) \/ Get(w) \/ GetTimeout(w)
  \/ TimeoutCheck(w) \/ Goto(w) \/ Backoff(w) \/ Extract(w)
  \/ AddResult(w) \/ Links(w) \/ Sleep(w) \/ ClosePage(w)
  \/ CloseContext(w)

\* a step of crawl() other than the expiry of max_duration
CrawlStep ==
  StartCrawl \/ StartFails \/ GatherDone \/ CancelDone \/ StartupHandled
    \/ JoinReturn

\* every await that can return does return (a fetch, a sleep, a browser
\* call, the 10 s timeout of the dequeue), and the event loop resumes the
\* task; the deadline may or may not expire
FairSpec ==
  /\ Spec
  /\ \A w \in Workers : WF_vars(WorkerStep(w))
  /\ WF_vars(CrawlStep)

\* ------------------------------------------- crawl() called a second time
\* crawl() is called again on the same WebCrawler after it has returned:
\* browser_context() starts playwright and a browser anew, start_url is put
\* on the queue of the SharedState made by WebCrawler.__init__, and new
\* worker tasks are created; crawl() assigns nothing else
CrawlAgain ==
  /\ cpc = "done"
  /\ hist.crawls < MaxCrawls
  /\ playwright' = "started"
  /\ browser' = "open"
  /\ queue' = Append(queue, start_url)
  /\ unfinished' = unfinished + 1
  /\ pc' = [w \in Workers |-> "new_context"]
  /\ worker_exc' = [w \in Workers |-> FALSE]
  /\ cpc' = "gather"
  /\ exc' = "none"
  /\ outcome' = "none"
  /\ hist' = [hist EXCEPT !.crawls = @ + 1,
                          !.enqueued = @ \cup {start_url}]
  /\ UNCHANGED <<max_bytes, ex, visited_urls, stats, total_bytes, results, stop_event,
                 sessions, url, attempt, content, report>>

NextReuse ==
  \/ Next
  \/ CrawlAgain

\* one WebCrawler whose crawl() is called up to MaxCrawls times in a row
SpecReuse == Init /\ [][NextReuse]_vars

\* ------------------------------------------- extract_content on any page
InitExtract ==
  /\ InitWith(MaxBytes, Urls)
  /\ ex \in {[pc |-> "call", page |-> p] : p \in Pages}

\* content = await self.extract_content(page)
ExtractContent ==
  /\ ex.pc = "call"
  /\ ex' = [pc |-> "done", page |-> ex.page, out |-> extract_content(ex.page)]
  /\ UNCHANGED <<shared, max_bytes, coord, sessions, pc, url, attempt, content,
                 worker_exc, hist>>

NextExtract == ExtractContent

SpecExtract == InitExtract /\ [][NextExtract]_vars

\* -------------------------------------------- _extract_links on any page
\* the page at page_url, already visited, shows the hrefs; its links are
\* extracted and put on an empty queue by the put loop
InitLinks ==
  /\ InitWith(MaxBytes, Urls)
  /\ ex \in {[pc |-> "links_call", page_url |-> pg, hrefs |-> hs, eval_ok |-> ok] :
              pg \in {<<TARGET_DOMAIN>>, <<TARGET_DOMAIN, "page">>},
              hs \in HrefLists, ok \in BOOLEAN}

\* new_urls = await self._extract_links(page) and the put loop
ExtractLinks ==
  /\ ex.pc = "links_call"
  /\ LET new_urls == extract_links(ex.hrefs, ex.eval_ok) IN
       ex' = [pc |-> "links_done", page_url |-> ex.page_url,
              hrefs |-> ex.hrefs, eval_ok |-> ex.eval_ok, out |-> new_urls,
              queue |-> PutNew(<<>>, {ex.page_url}, new_urls)]
  /\ UNCHANGED <<shared, max_bytes, coord, sessions, pc, url, attempt, content,
                 worker_exc, hist>>

NextLinks == ExtractLinks

SpecLinks == InitLinks /\ [][NextLinks]_vars

\* ------------------------------------------------ the one-level site run
\* A site of one seed page and ScenarioLinks pages it links to; each of
\* those links back to the seed and on to the next of them, so no page but
\* the seed yields a URL that is not already known.  The renderer is
\* healthy: sessions open, every page.goto and every extraction succeeds;
\* the quota holds every record and max_duration does not expire.
ScenarioUrls == 1..(ScenarioLinks + 1)

ScenarioBytes == (ScenarioLinks + 1) * MaxSize

\* what _extract_links returns for the page u of the site
ScenarioSite(u) ==
  IF u = start_url THEN [i \in 1..ScenarioLinks |-> i + 1]
  ELSE <<start_url, IF u = ScenarioLinks + 1 THEN 2 ELSE u + 1>>

\* the serialized size of the record of page u of the site
ScenarioSize(u) == 1 + (u % MaxSize)

InitScenario == InitWith(ScenarioBytes, ScenarioUrls) /\ ex = NoCall

\* no step of the run is a failure of the renderer, and extract_content
\* returns the record of the page of the site
HealthyStep ==
  /\ worker_exc' = worker_exc
  /\ stats'.total_failed = stats.total_failed
  /\ \A w \in Workers :
       /\ pc'[w] = "backoff" => pc[w] = "backoff"
       /\ pc[w] = "new_page" => pc'[w] # "close_context"
       /\ pc'[w] = "add_result" => content'[w] = ScenarioSize(url'[w])

ScenarioLinksStep(w) == PutLinks(w, ScenarioSite(url[w]))

NextScenario ==
  \/ StartCrawl
  \/ GatherDone
  \/ JoinReturn
  \/ \E w \in Workers :
       \/ NewContext(w) /\ HealthyStep
       \/ NewPage(w) /\ HealthyStep
       \/ Get(w)
       \/ GetTimeout(w)
       \/ TimeoutCheck(w)
       \/ Goto(w) /\ HealthyStep
       \/ Extract(w) /\ HealthyStep
       \/ AddResult(w)
       \/ ScenarioLinksStep(w)
       \/ Sleep(w)
       \/ ClosePage(w)
       \/ CloseContext(w)

SpecScenario == InitScenario /\ [][NextScenario]_vars

TypeOK ==
  /\ visited_urls \subseteq Urls
  /\ total_bytes \in 0..MaxBytes
  /\ unfinished >= 0
  /\ \A w \in Workers : attempt[w] \in 0..(MaxAttempts - 1)

\* ------------------------------------------------------------- properties

\* queue items acknowledged as duplicates so far: every put but those still
\* unacknowledged, less the acknowledgements of the except handler
DupsDiscarded == 1 + stats.total_queued - unfinished - stats.total_failed

\* a step in which a worker takes the head of the queue
Dequeues == Len(queue') < Len(queue)

\* a step of worker w other than its cancellation
StepOf(w) == pc'[w] # pc[w] /\ cpc' = cpc

RECURSIVE SumSizes(_)
SumSizes(res) == IF res = <<>> THEN 0 ELSE Head(res).size + SumSizes(Tail(res))

\* C1: over the whole run add_visited_url returns true at most once for a
\* URL; every URL taken from the queue has then been admitted exactly once;
\* a call that returns false leaves the visited set unchanged.
C1_AdmitExactlyOnce ==
  /\ [](\A u \in Urls : hist.admits[u] <= 1)
  /\ [][Dequeues =>
          LET u == Head(queue) IN
            /\ hist'.admits[u] = 1
            /\ (hist'.admits[u] = hist.admits[u] => visited_urls' = visited_urls)]_vars

\* C1 witness: a worker is fetching the URL it was admitted for while a
\* second queue entry of an admitted URL has been turned away and the worker
\* that took it is back at its dequeue
C1_Witness ==
  /\ DupsDiscarded >= 1
  /\ \E w1, w2 \in Workers :
       /\ pc[w1] = "goto" /\ hist.admits[url[w1]] = 1
       /\ pc[w2] = "get" /\ queue = <<>>

\* C2: the results list never holds two records of the same URL.
C2_OneRecordPerUrl ==
  \A i, j \in 1..Len(results) : results[i].url = results[j].url => i = j

\* C2 witness: two records are stored and a duplicate queue entry was met
C2_Witness == Len(results) >= 2 /\ DupsDiscarded >= 1

\* C3: total_bytes never exceeds max_bytes and always equals the sizes of
\* the stored records; when the record at hand does not fit, the step of
\* add_result reports a rejection, leaves total_bytes unchanged and appends
\* nothing.
C3_QuotaNeverExceeded ==
  /\ [](total_bytes <= max_bytes /\ total_bytes = SumSizes(results))
  /\ [][\A w \in Workers :
          (pc[w] = "add_result" /\ StepOf(w)
             /\ total_bytes + content[w] > max_bytes) =>
          /\ url[w] \in hist'.rejected
          /\ total_bytes' = total_bytes
          /\ results' = results]_vars

\* C3 witness: a record was rejected while another one is stored
C3_Witness == hist.rejected # {} /\ Len(results) >= 1 /\ total_bytes < max_bytes

\* C4: total_processed + total_failed <= total_queued + 1 in every state.
C4_CountersBound ==
  stats.total_processed + stats.total_failed <= stats.total_queued + 1

\* C4 witness: one worker has put the links of its page and is in its
\* rate-limit sleep while the other is processing one of them, and the bound
\* is tight
C4_Witness ==
  /\ \E w1, w2 \in Workers :
       /\ pc[w1] = "sleep"
       /\ pc[w2] \in {"goto", "extract", "add_result", "links"}
       /\ url[w2] # start_url
  /\ stats.total_processed + stats.total_failed = stats.total_queued + 1

\* C5: when the record at hand exceeds the remaining quota, add_result
\* returns false with the stop event set on its return; the report then
\* holds no record of a rejected URL and a usage_percentage of at most 100.
C5_RejectionStopsAndExcludes ==
  /\ [][\A w \in Workers :
          (pc[w] = "add_result" /\ StepOf(w)
             /\ total_bytes + content[w] > max_bytes) =>
          /\ url[w] \in hist'.rejected
          /\ hist'.reject_stop
          /\ stop_event']_vars
  /\ [](outcome = "report" =>
          /\ \A u \in hist.rejected : \A i \in 1..Len(report.results) :
                report.results[i].url # u
          /\ FracLeq(report.storage.usage_percentage, 100))

\* C5 witness: a report that was returned after a rejection and holds records
C5_Witness ==
  outcome = "report" /\ hist.rejected # {} /\ Len(report.results) >= 1

\* C6: once a record has been rejected and the stop event set, no record is
\* appended to results any more.
C6_NoRecordAfterTrip ==
  [][hist.rejected # {} => results' = results]_vars

\* page.goto calls made in the iteration in progress
Attempts(w) == hist.fails[w] + (IF hist.fetched[w] THEN 1 ELSE 0)

\* C7: a worker makes at most 3 page.goto calls for an admitted URL and none
\* after the first that succeeds; the step of the 3rd failure adds exactly 1
\* to total_failed, leaves total_processed and results unchanged and takes
\* the worker back to the loop head.
C7_ThreeAttemptsThenAbandon ==
  /\ [](\A w \in Workers :
          /\ Attempts(w) <= 3
          /\ (hist.fetched[w] => pc[w] = "extract"))
  /\ [][\A w \in Workers :
          (url[w] \in hist'.abandoned /\ url[w] \notin hist.abandoned) =>
          /\ stats'.total_failed = stats.total_failed + 1
          /\ stats'.total_processed = stats.total_processed
          /\ results' = results
          /\ pc'[w] = (IF stop_event THEN "close_page" ELSE "get")]_vars

\* C7 witness: a URL was abandoned after its 3rd failure and the worker is
\* back at the dequeue with work waiting
C7_Witness ==
  /\ hist.abandoned # {}
  /\ stats.total_failed = 1
  /\ \E w \in Workers : pc[w] = "get" /\ queue # <<>>

\* C8: a URL abandoned after its 3rd failure is never put on the queue again
\* and never admitted again.
C8_AbandonedNeverRequeued ==
  [][\A u \in hist.abandoned :
        /\ Count(queue', u) <= Count(queue, u)
        /\ hist'.admits[u] = hist.admits[u]]_vars

\* C8 witness: a URL was abandoned and a page stored after that is about to
\* have its links put on the queue
C8_Witness ==
  \E u \in hist.abandoned : \E w \in Workers :
    pc[w] = "links" /\ url[w] # u /\ u # start_url

\* C9: when the browser was started, crawl() ends by returning a report,
\* whatever failed in the pages, in the workers or by the deadline.
C9_AlwaysReturnsReport ==
  (cpc = "done" /\ browser # "none") => outcome = "report"

\* C9 witness: a report returned after the deadline expired, a page failed
\* and a worker task ended with an exception
C9_Witness ==
  /\ outcome = "report"
  /\ hist.deadline
  /\ stats.total_failed >= 1
  /\ \E w \in Workers : worker_exc[w]

\* C10: when the browser could not be started, crawl() ends by raising.
C10_StartupFailurePropagates ==
  (cpc = "done" /\ browser = "none") => outcome = "raised"

\* C10 as amended: when the browser could not be started, crawl() logs the
\* failure and returns a report with no results and zero counters.
C10_StartupFailureReported ==
  (cpc = "done" /\ browser = "none") =>
    /\ outcome = "report"
    /\ report.results = <<>>
    /\ report.stats = CrawlStats
    /\ report.storage.total_bytes = 0

\* C10 witness: crawl() has ended after chromium.launch() failed
C10_Witness == cpc = "done" /\ browser = "none" /\ playwright = "stopped"

\* worker w is inside the iteration of an admitted URL: between its admission
\* and the bookkeeping of the iteration (update_stats(processed=1) or the
\* except handler)
InIteration(w) == pc[w] \in {"goto", "backoff", "extract", "add_result"}

\* C11: the run never stops a worker inside an iteration: every admitted URL
\* is either still in the hands of the worker that admitted it or counted in
\* total_processed or in total_failed.
C11_AdmittedUrlBooked ==
  Cardinality(visited_urls) =
    stats.total_processed + stats.total_failed
      + Cardinality({w \in Workers : InIteration(w)})

\* C12: the step in which a page's exception is handled (page.goto failing
\* for the last time, or extract_content raising) counts the failure and
\* takes the worker back to the loop head: to its next dequeue, or out of the
\* loop when the stop event is set; the worker task does not end by it.
C12_PageFailureKeepsWorker ==
  [][\A w \in Workers :
        (pc[w] \in {"goto", "extract"} /\ StepOf(w)
           /\ stats'.total_failed # stats.total_failed) =>
        /\ stats'.total_failed = stats.total_failed + 1
        /\ pc'[w] = (IF stop_event THEN "close_page" ELSE "get")
        /\ worker_exc'[w] = worker_exc[w]]_vars

\* C12 witness: the only worker that runs has counted a failed page and is
\* fetching the next URL it took from the queue
C12_Witness ==
  /\ stats.total_failed >= 1
  /\ ~stop_event
  /\ \E w \in Workers :
       /\ pc[w] = "goto"
       /\ \A v \in Workers \ {w} : worker_exc[v]

\* C13: a queue entry of a URL that is already visited is dropped silently:
\* the step that takes it admits nothing, leaves total_processed,
\* total_failed, total_queued, results and total_bytes unchanged and starts
\* no page.goto; the URL stays admitted exactly once.
C13_DuplicateDequeueIsNoOp ==
  [][(Dequeues /\ Head(queue) \in visited_urls) =>
        /\ hist'.admits[Head(queue)] = 1
        /\ hist'.admits = hist.admits
        /\ visited_urls' = visited_urls
        /\ stats' = stats
        /\ results' = results
        /\ total_bytes' = total_bytes
        /\ \A w \in Workers :
             /\ pc'[w] = "goto" => pc[w] = "goto"
             /\ hist'.fails[w] = hist.fails[w]
             /\ hist'.fetched[w] = hist.fetched[w]]_vars

\* C13 witness: a URL that two workers had each put on the queue was taken
\* twice, admitted the first time and dropped the second, and the queue is
\* empty
C13_Witness ==
  /\ hist.shared_dup
  /\ DupsDiscarded = 1
  /\ \A u \in Urls : hist.admits[u] <= 1 /\ Count(queue, u) = 0

\* C15: no step lowers total_processed, total_failed or total_queued.
C15_CountersMonotone ==
  [][/\ stats'.total_processed >= stats.total_processed
     /\ stats'.total_failed >= stats.total_failed
     /\ stats'.total_queued >= stats.total_queued]_vars

\* C15 witness: each of the three counters has been raised, total_queued in
\* two separate calls
C15_Witness ==
  /\ stats.total_processed >= 2
  /\ stats.total_failed >= 1
  /\ stats.total_queued >= 2
  /\ \E w \in Workers : pc[w] = "sleep"

\* C16: crawl() leaves its gather only when every worker task has ended; the
\* report is assembled once, and from then on results, stats and total_bytes
\* do not change, so the report keeps describing them.
C16_ReportAfterWorkers ==
  /\ [](cpc \in {"join", "done"} => \A w \in Workers : pc[w] \in {"idle", "done"})
  /\ [](outcome = "report" =>
          /\ report.results = results
          /\ report.stats = stats
          /\ report.storage.total_bytes = total_bytes)
  /\ [][cpc = "done" =>
          /\ results' = results /\ stats' = stats /\ total_bytes' = total_bytes
          /\ report' = report]_vars

\* C16 witness: a report with a record in it, returned after the deadline
\* cancelled the workers
C16_Witness ==
  /\ cpc = "done" /\ outcome = "report"
  /\ hist.deadline
  /\ Len(report.results) >= 1
  /\ \A w \in Workers : pc[w] = "done"

C17_SessionsReleased ==
  cpc = "done" =>
    /\ browser # "open"
    /\ playwright # "started"
    /\ contexts = {}
    /\ pages = {}

\* a call of crawl() has just started: the seed is put and the worker tasks
\* are created, none has run yet
CrawlStarts == cpc = "gather" /\ \A w \in Workers : pc[w] = "new_context"

\* C18: every call of crawl() starts from an empty shared state: nothing
\* visited, no result, zero counters, zero total_bytes, the stop event unset
\* and only the seed on the queue.
C18_FreshStatePerCrawl ==
  CrawlStarts =>
    /\ visited_urls = {}
    /\ results = <<>>
    /\ stats.total_processed = 0 /\ stats.total_failed = 0 /\ stats.total_queued = 0
    /\ total_bytes = 0
    /\ ~stop_event
    /\ queue = <<start_url>>

\* C14: on the one-level site (a seed with ScenarioLinks = 5 links, every
\* fetch succeeding, quota never reached) every run ends with a report of
\* total_processed = 6, total_failed = 0 and exactly one record for each of
\* the 6 pages, however the workers interleave.
C14_ScenarioProcessesAll ==
  cpc = "done" =>
    /\ outcome = "report"
    /\ report.stats.total_processed = ScenarioLinks + 1
    /\ report.stats.total_failed = 0
    /\ Len(report.results) = ScenarioLinks + 1
    /\ {report.results[i].url : i \in 1..Len(report.results)} = ScenarioUrls
    /\ ~hist.deadline /\ hist.rejected = {}

\* C14 witness: the run on the one-level site has ended with its 6 records
\* after both workers had put a link to the same page on the queue
C14_Witness ==
  /\ cpc = "done" /\ outcome = "report"
  /\ Len(report.results) = ScenarioLinks + 1
  /\ max_bytes = ScenarioBytes
  /\ hist.shared_dup

\* C20: whenever page.title() and page.content() return, extract_content
\* returns a record with the fields url, title, content, media and metadata;
\* metadata is the empty dict when its evaluation raised and media the empty
\* list when its extraction raised.
C20_RecordHasAllFields ==
  (ex.pc = "done" /\ ex.page.title_ok /\ ex.page.content_ok) =>
    /\ ex.out[1] = "return"
    /\ {"url", "title", "content", "media", "metadata"} \subseteq DOMAIN ex.out[2]
    /\ ex.out[2].url = ex.page.url
    /\ (~ex.page.meta_ok => DOMAIN ex.out[2].metadata = {})
    /\ (~ex.page.videos_ok => ex.out[2].media = <<>>)

\* C20 witness: extract_content has returned the record of a page on which
\* the metadata evaluation and the video evaluation both raised
C20_Witness ==
  /\ ex.pc = "done"
  /\ ex.out[1] = "return"
  /\ ~ex.page.meta_ok /\ ~ex.page.videos_ok /\ ex.page.images = 1

\* C21: a worker that has worked on an admitted URL begins its next dequeue
\* only out of the rate-limit sleep: no step takes it from inside the
\* iteration straight to the dequeue.
C21_SleepBeforeNextDequeue ==
  [][\A w \in Workers :
        (InIteration(w) \/ pc[w] = "links") => pc'[w] # "get"]_vars

\* the step of worker w in which extract_content raises
ExtractRaises(w) ==
  pc[w] = "extract" /\ StepOf(w) /\ pc'[w] # "add_result"

\* C22: a failure in any of the four extractions (title, content, metadata,
\* media) ends the URL: when extract_content raises, and equally when the
\* metadata or media extraction has failed, the URL is counted as failed
\* and no record of it is appended to results.
C22_AnyExtractionFailureTerminal ==
  [][\A w \in Workers :
        /\ ExtractRaises(w) =>
             /\ stats'.total_failed = stats.total_failed + 1
             /\ results' = results
        /\ (pc[w] = "add_result" /\ hist.partial[w]) =>
             results' = results]_vars

\* C22 as amended: when page.title() or page.content() raises, the URL is
\* not retried, total_failed grows by exactly 1 and no record is appended;
\* a failure of the metadata or media extraction is not a failure of the
\* URL: extract_content returns the record, which is stored and counted as
\* processed unless the quota rejects it.
C22_TitleContentFailureTerminal ==
  [][\A w \in Workers :
        /\ ExtractRaises(w) =>
             /\ stats'.total_failed = stats.total_failed + 1
             /\ stats'.total_processed = stats.total_processed
             /\ results' = results
             /\ pc'[w] = (IF stop_event THEN "close_page" ELSE "get")
             /\ hist'.admits[url[w]] = 1
             /\ url[w] \in visited_urls'
        /\ (pc[w] = "add_result" /\ hist.partial[w] /\ StepOf(w)
              /\ total_bytes + content[w] <= max_bytes) =>
             /\ results' = Append(results, [url |-> url[w], size |-> content[w]])
             /\ stats'.total_processed = stats.total_processed + 1
             /\ stats'.total_failed = stats.total_failed]_vars

\* C22 witness: one page was counted as failed by its extraction and the
\* record of another, whose metadata or media extraction had failed, is about
\* to be stored
C22_Witness ==
  /\ stats.total_failed = 1
  /\ hist.abandoned = {}
  /\ \E w \in Workers :
       /\ pc[w] = "add_result" /\ hist.partial[w]
       /\ total_bytes + content[w] <= max_bytes

\* a fragment-only link of the page at page_url: the page's own URL followed
\* by a fragment
FragmentOnly(href, page_url) ==
  /\ Len(href) > Len(page_url)
  /\ SubSeq(href, 1, Len(page_url)) = page_url
  /\ href[Len(page_url) + 1] = "#"

\* the conditions of the claim on a discovered link
ClaimedCandidate(href, page_url) ==
  /\ startsWith(href, TARGET_DOMAIN)
  /\ ~FragmentOnly(href, page_url)
  /\ ~endsWith(href, ".pdf") /\ ~endsWith(href, ".doc") /\ ~endsWith(href, ".docx")
  /\ NotBlacklisted(href)

\* C23: every URL the put loop places on the queue starts with the target
\* domain, is not a fragment-only link, does not end in .pdf, .doc or .docx
\* and holds no blacklist pattern; and the links extracted are exactly the
\* hrefs of the page that meet these conditions.
C23_CandidatesAsClaimed ==
  (ex.pc = "links_done" /\ ex.eval_ok) =>
    /\ \A i \in 1..Len(ex.queue) : ClaimedCandidate(ex.queue[i], ex.page_url)
    /\ ex.out = SelectSeq(ex.hrefs, LAMBDA h : ClaimedCandidate(h, ex.page_url))

\* the conditions the code puts on a discovered link
Candidate(href) ==
  /\ startsWith(href, TARGET_DOMAIN)
  /\ ~includes(href, "#")
  /\ ~endsWith(href, ".pdf") /\ ~endsWith(href, ".doc") /\ ~endsWith(href, ".docx")
  /\ \A pattern \in URL_BLACKLIST_PATTERNS : ~includes(href, pattern)

\* C23 as amended: every URL the put loop places on the queue starts with
\* the target domain, holds no "#" anywhere, does not end in .pdf, .doc or
\* .docx and holds no blacklist pattern; the links extracted are exactly the
\* hrefs that meet these conditions, in page order, and those of them that
\* are not visited are put on the queue.
C23_CandidatesNoHash ==
  ex.pc = "links_done" =>
    /\ \A i \in 1..Len(ex.queue) : Candidate(ex.queue[i])
    /\ ex.eval_ok => ex.out = SelectSeq(ex.hrefs, Candidate)
    /\ ex.queue = SelectSeq(ex.out, LAMBDA l : l # ex.page_url)

\* C23 witness: of two hrefs of a page one was dropped by the filters and
\* the other put on the queue
C23_Witness ==
  /\ ex.pc = "links_done"
  /\ Len(ex.hrefs) = 2
  /\ Len(ex.queue) = 1
  /\ \E i \in 1..2 : includes(ex.hrefs[i], "nos-agences")
                       /\ startsWith(ex.hrefs[i], TARGET_DOMAIN)

\* C24: at every suspension point of a worker (the dequeue, the fetch, the
\* backoff and rate-limit sleeps, the extraction calls, the session calls)
\* the worker holds none of the four locks.
C24_NoLockAcrossSuspension ==
  \A w \in Workers : hist.held[w] \cap Locks = {}

\* C24 witness: a worker sleeps its rate-limit delay after an iteration that
\* went through add_visited_url, add_result and update_stats, its record
\* stored, and holds no lock
C24_Witness ==
  \E w \in Workers :
    /\ pc[w] = "sleep"
    /\ stats.total_processed >= 1
    /\ results # <<>>
    /\ hist.held[w] = {}

\* worker w ends early in this step: new_context raises out of the task, or
\* new_page raises into the outer except clause
EndsEarly(w) ==
  /\ StepOf(w)
  /\ \/ pc[w] = "new_context" /\ pc'[w] = "done"
     \/ pc[w] = "new_page" /\ pc'[w] = "close_context"

\* C25: a worker ending early on an exception outside the loop body (its
\* context or page cannot be opened) leaves the stop signal, the other
\* workers and the coordinator as they are; while the workers run the stop
\* signal is set only by a quota rejection; and the crawl() call that had
\* such a worker still ends with the report.
C25_EarlyExitIsolated ==
  /\ [][\A w \in Workers :
          EndsEarly(w) =>
            /\ stop_event' = stop_event
            /\ \A v \in Workers \ {w} : pc'[v] = pc[v]
            /\ <<cpc', exc', outcome'>> = <<cpc, exc, outcome>>]_vars
  /\ []((cpc = "gather" /\ stop_event) => hist.rejected # {})
  /\ []((cpc = "done" /\ \E w \in Workers : worker_exc[w]) =>
          (outcome = "report" /\ report.results = results))

\* C25 witness: one worker could not open its context, no deadline fired,
\* and crawl() returned a report with a record another worker stored
C25_Witness ==
  /\ cpc = "done"
  /\ outcome = "report"
  /\ \E w \in Workers : worker_exc[w]
  /\ ~hist.deadline
  /\ Len(report.results) >= 1

\* C26: once the stop signal is set no worker passes the loop head into
\* another dequeue; and, every await returning, a stop signal set while the
\* workers run leads to every worker task having ended, and then to crawl()
\* having assembled its report.
C26_StopEndsCrawl ==
  /\ [][\A w \in Workers :
          (stop_event /\ StepOf(w) /\ pc[w] # "get") => pc'[w] # "get"]_vars
  /\ (stop_event /\ cpc = "gather") ~> (\A w \in Workers : pc[w] = "done")
  /\ (stop_event /\ cpc = "gather") ~> (cpc = "done" /\ outcome = "report")

\* C26 witness: the stop signal was set by a quota rejection while another
\* worker was in an iteration; every worker has ended without the deadline
\* and crawl() has returned the report
C26_Witness ==
  /\ cpc = "done"
  /\ outcome = "report"
  /\ hist.rejected # {}
  /\ ~hist.deadline
  /\ Len(results) >= 1
  /\ \A w \in Workers : pc[w] = "done" /\ ~worker_exc[w]

\* C27: every URL taken from the queue is acknowledged with task_done before
\* the worker dequeues again or exits, so that once every worker has exited
\* uncancelled and the queue is empty, no put is left unacknowledged and
\* queue.join() returns at once.
C27_AllAcknowledged ==
  (/\ \A w \in Workers : pc[w] = "done"
   /\ queue = <<>>
   /\ ~hist.deadline) => unfinished = 0

\* the workers run, or have all ended, in a crawl() whose stop signal was
\* never raised and whose deadline did not fire
Undisturbed == cpc = "gather" /\ ~stop_event /\ ~hist.deadline

\* C28: in a crawl() whose stop signal is never raised and whose deadline
\* never fires, once all workers have exited the queue is empty and every
\* URL ever put on it is in visited_urls.
C28_DrainedWhenAllExit ==
  (Undisturbed /\ AllDone) =>
    (queue = <<>> /\ hist.enqueued \subseteq visited_urls)

\* C28 as amended: with the stop signal not raised, a worker leaves its loop
\* only by the dequeue timeout on an empty queue; when all workers have
\* ended and at least one of them had opened its session and dequeued, the
\* queue is empty and every URL ever put on it is in visited_urls; and,
\* every await returning, the running workers lead to the stop signal, the
\* deadline, or all workers ended.
C28_DrainedUnlessNoSession ==
  /\ [][\A w \in Workers :
          (StepOf(w) /\ pc'[w] = "close_page" /\ ~stop_event') =>
            (pc[w] = "timedout" /\ queue = <<>>)]_vars
  /\ []((Undisturbed /\ AllDone /\ visited_urls # {}) =>
          (queue = <<>> /\ hist.enqueued \subseteq visited_urls))
  /\ (cpc = "gather") ~> (stop_event \/ hist.deadline \/ AllDone)

\* C28 witness: all workers have ended undisturbed, two of them through the
\* loop, after every URL of the site was put on the queue and visited
C28_Witness ==
  /\ Undisturbed /\ AllDone
  /\ hist.enqueued = Urls
  /\ visited_urls = Urls
  /\ queue = <<>>
  /\ \A w \in Workers : ~worker_exc[w]

\* C29: total_processed equals the number of stored records in every state
\* between two steps of the tasks, and so in the report crawl() returns,
\* whether the crawl ended by exhaustion, by the deadline or by the quota.
C29_ProcessedEqualsStored ==
  /\ stats.total_processed = Len(results)
  /\ outcome = "report" => report.stats.total_processed = Len(report.results)

\* C29 witness: a report returned after the quota stopped the crawl and the
\* deadline cancelled the rest, holding records and a failed page
C29_Witness ==
  /\ outcome = "report"
  /\ hist.rejected # {}
  /\ hist.deadline
  /\ Len(report.results) >= 1
  /\ report.stats.total_failed >= 1

\* C30: in the report crawl() returns, the storage total is the sum of the
\* sizes of the records in results, on every exit path.
C30_ReportBytesMatchResults ==
  outcome = "report" =>
    report.storage.total_bytes = SumSizes(report.results)

\* C30 witness: a report returned after the deadline fired while a worker held
\* a page at hand, with two stored records and a rejected one
C30_Witness ==
  /\ outcome = "report"
  /\ hist.deadline
  /\ hist.rejected # {}
  /\ Len(report.results) >= 2
  /\ report.storage.total_bytes = max_bytes

====
